---- MODULE Spec2Model ----
(***************************************************************************)
(* A model of espaloma/graphs/legacy_force_field.py: the LegacyForceField  *)
(* class, which prepares a legacy force field (GAFF, SMIRNOFF, OpenFF),    *)
(* types a molecular graph and copies the force field's parameters onto    *)
(* the graph's nodes.                                                      *)
(*                                                                         *)
(* Conventions.  A force-field name is a sequence of tokens ("gaff-1.81"   *)
(* is <<"gaff", "1.81">>); Python's `sub in name` is Contains.  A physical *)
(* quantity is represented by its magnitude in espaloma's units, so        *)
(* value_in_unit(esp.units.X) reads that magnitude; torsion force          *)
(* constants of the engine are even integers so that 0.5 * k is exact.     *)
(* The graph's node data is a set of <<node type, key>> pairs where only   *)
(* the presence of a key matters, and a function where values matter.      *)
(***************************************************************************)
EXTENDS Integers, Sequences, FiniteSets, TLC

VARIABLES
    \* ---- the LegacyForceField object and the calls made on it
    forcefield,     \* self.forcefield
    obj,            \* "none" (not constructed), "ready", "failed"
    prepLog,        \* the preparation routines __init__ ran, in order
    FF,             \* self.FF: "unset" or the loaded offxml
    tables,         \* TRUE when self._str_2_idx / self._idx_2_str are set
    gdata,          \* keys present in the graph: <<ntype, key>>
    lastCall,       \* the last public call: operation, routine, outcome
    \* ---- _prepare_gaff / _type_gaff
    ppc, xml_types, atom_types, pstep, str_2_idx, idx_2_str, legacy_typing,
    \* ---- _parametrize_gaff
    g_idxs,         \* g.nodes[ntype].data["idxs"], for n2, n3 and n4
    gpc, gidx,      \* position in the loop over forces and in a force
    bondFlip, angleFlip,    \* the engine's bonds / angles listed end to start
    maxTorsions,    \* most proper-torsion entries the engine's force may hold
    engineTerms,    \* the Fourier terms the engine's force field holds
    n2_eq_ref, n2_k_ref, n3_eq_ref, n3_k_ref,
    torsion_ks, torsion_phases, torsion_periodicities,
    n4_data,        \* g.nodes["n4"].data: k_ref, periodicity_ref, phases_ref
    reported,       \* per proper torsion, the terms the engine reported
    orientSeen,     \* per proper torsion, the index orders the engine used
    skipped,        \* engine torsions that are not in the n4 lookup table
    \* ---- _parametrize_smirnoff
    spc, sidx,      \* position in _parametrize_smirnoff and in a node loop
    exposure,       \* how the labelled parameters resolve k0, phase0, ...
    labels,         \* the force field's labels of the molecule's torsions
    s_work,         \* the k, phases, periodicity tensors being filled
    s_data,         \* the reference data stored in the graph
    \* ---- baseline_energy
    epc,            \* position in baseline_energy
    suffix_arg,     \* the suffix argument: None or a string
    suffix,         \* the local suffix
    xs,             \* the conformations' positions, conformation first
    us,             \* the energies appended so far
    edata,          \* the graph's node data: <<ntype, key>> -> tensor
    edata0          \* the graph's node data when baseline_energy is called

dispVars == <<forcefield, obj, prepLog, FF, tables, gdata, lastCall>>
prepVars == <<ppc, xml_types, atom_types, pstep, str_2_idx, idx_2_str,
              legacy_typing>>
gaffVars == <<g_idxs, gpc, gidx, bondFlip, angleFlip, maxTorsions, engineTerms,
              n2_eq_ref, n2_k_ref, n3_eq_ref, n3_k_ref,
              torsion_ks, torsion_phases, torsion_periodicities,
              n4_data, reported, orientSeen, skipped>>
smirVars == <<spc, sidx, exposure, labels, s_work, s_data>>
enVars   == <<epc, suffix_arg, suffix, xs, us, edata, edata0>>
vars     == <<dispVars, prepVars, gaffVars, smirVars, enVars>>

(***************************************************************************)
(* Values of the variables of the parts a specification does not exercise. *)
(***************************************************************************)
IdleDisp ==
    /\ forcefield = <<>> /\ obj = "none" /\ prepLog = <<>> /\ FF = "unset"
    /\ tables = FALSE /\ gdata = {} /\ lastCall = [op |-> "none", routine |-> "none",
                                              outcome |-> "none", before |-> {}]

IdlePrep ==
    /\ ppc = "idle" /\ xml_types = <<>> /\ atom_types = <<>> /\ pstep = 0
    /\ str_2_idx = <<>> /\ idx_2_str = <<>> /\ legacy_typing = <<>>

IdleGaff ==
    /\ g_idxs = <<>> /\ gpc = "idle" /\ gidx = 0 /\ bondFlip = {} /\ angleFlip = {}
    /\ maxTorsions = 0 /\ engineTerms = {} /\ orientSeen = <<>> /\ skipped = 0
    /\ n2_eq_ref = <<>> /\ n2_k_ref = <<>> /\ n3_eq_ref = <<>> /\ n3_k_ref = <<>>
    /\ torsion_ks = <<>> /\ torsion_phases = <<>> /\ torsion_periodicities = <<>>
    /\ n4_data = <<>> /\ reported = <<>>

IdleSmir ==
    /\ spc = "idle" /\ sidx = 0 /\ exposure = "none" /\ labels = <<>>
    /\ s_work = <<>> /\ s_data = <<>>

IdleEn ==
    /\ epc = "idle" /\ suffix_arg = <<>> /\ suffix = <<>> /\ xs = <<>>
    /\ us = <<>> /\ edata = <<>> /\ edata0 = <<>>

(***************************************************************************)
(* Force-field names.                                                      *)
(***************************************************************************)
MaxNameLen == 2

Tokens == {"gaff", "smirnoff", "openff", "amber"}

Names == UNION {[1..n -> Tokens] : n \in 1..MaxNameLen}

\* Python `sub in name` on a tokenised name
Contains(sub, name) == \E i \in 1..Len(name) : name[i] = sub

(***************************************************************************)
(* __init__ and _prepare_forcefield                                        *)
(***************************************************************************)
\* the branch _prepare_forcefield takes: gaff, then smirnoff, then openff
PrepareSwappedOrder(name) ==
    IF Contains("smirnoff", name) THEN "smirnoff"
    ELSE IF Contains("gaff", name) THEN "gaff"
    ELSE IF Contains("openff", name) THEN "openff"
    ELSE "NotImplementedError"

PrepareBranch(name) ==
    IF Contains("gaff", name) THEN "gaff"
    ELSE IF Contains("smirnoff", name) THEN "smirnoff"
    ELSE IF Contains("openff", name) THEN "openff"
    ELSE "NotImplementedError"

\* _prepare_smirnoff and _prepare_openff both load "<name>.offxml" into self.FF
LoadedFF(name) == <<name, "offxml">>

Construct(name) ==
    /\ obj = "none"
    /\ forcefield' = name
    /\ LET b == PrepareBranch(name) IN
       IF b = "NotImplementedError"
       THEN /\ obj' = "failed"
            /\ prepLog' = <<>>
            /\ UNCHANGED <<FF, tables>>
            /\ lastCall' = [op |-> "__init__", routine |-> "none",
                            outcome |-> "NotImplementedError", before |-> gdata]
       ELSE /\ obj' = "ready"
            /\ prepLog' = Append(prepLog, b)
            /\ FF' = IF b \in {"smirnoff", "openff"} THEN LoadedFF(name) ELSE FF
            /\ tables' = IF b = "gaff" THEN TRUE ELSE tables
            /\ lastCall' = [op |-> "__init__", routine |-> b,
                            outcome |-> "returned", before |-> gdata]
    /\ UNCHANGED gdata
    /\ UNCHANGED <<prepVars, gaffVars, smirVars, enVars>>

(***************************************************************************)
(* parametrize, typing, multi_typing, __call__                             *)
(***************************************************************************)
RefKeys(ntype, keys) == {<<ntype, k>> : k \in keys}

BondKeys     == RefKeys("n2", {"eq_ref", "k_ref"})
AngleKeys    == RefKeys("n3", {"eq_ref", "k_ref"})
ProperKeys   == RefKeys("n4", {"k_ref", "periodicity_ref", "phases_ref"})
ImproperKeys == RefKeys("n4_improper", {"k_ref", "periodicity_ref", "phases_ref"})
VdwKeys      == RefKeys("n1", {"epsilon_ref", "sigma_ref"})

\* keys _parametrize_gaff writes: n2 and n3 in the harmonic force branches,
\* n4 by apply_nodes; the n4_improper apply_nodes is commented out and the
\* nonbonded force is not read
GaffKeysNoTorsion == BondKeys \cup AngleKeys

GaffKeys == BondKeys \cup AngleKeys \cup ProperKeys

\* keys _parametrize_smirnoff writes
SmirnoffKeys ==
    BondKeys \cup AngleKeys \cup VdwKeys \cup ProperKeys \cup ImproperKeys

\* keys _type_gaff and _multi_typing_smirnoff write
TypeGaffKeys == {<<"n1", "legacy_typing">>}

MultiTypingKeys ==
    {<<"n2", "legacy_typing">>, <<"n3", "legacy_typing">>, <<"n1", "legacy_typing">>}

\* the branch parametrize takes
ParametrizeBranch(name) ==
    IF Contains("smirnoff", name) \/ Contains("openff", name) THEN "smirnoff"
    ELSE IF Contains("gaff", name) THEN "gaff"
    ELSE "NotImplementedError"

\* a routine that reads self.FF or self._str_2_idx fails with AttributeError
\* when the constructor did not set it
Call(op, routine, needsFF, needsTables, keys) ==
    IF routine = "NotImplementedError"
    THEN /\ lastCall' = [op |-> op, routine |-> "none",
                         outcome |-> "NotImplementedError", before |-> gdata]
         /\ UNCHANGED gdata
    ELSE IF (needsFF /\ FF = "unset") \/ (needsTables /\ ~tables)
    THEN /\ lastCall' = [op |-> op, routine |-> routine,
                         outcome |-> "AttributeError", before |-> gdata]
         /\ UNCHANGED gdata
    ELSE /\ lastCall' = [op |-> op, routine |-> routine,
                         outcome |-> "returned", before |-> gdata]
         /\ gdata' = gdata \cup keys

Parametrize ==
    /\ obj = "ready"
    /\ LET b == ParametrizeBranch(forcefield) IN
       Call("parametrize", b, b = "smirnoff", FALSE,
            IF b = "smirnoff" THEN SmirnoffKeys ELSE GaffKeys)
    /\ UNCHANGED <<forcefield, obj, prepLog, FF, tables>>
    /\ UNCHANGED <<prepVars, gaffVars, smirVars, enVars>>

TypingBranch(name) ==
    IF Contains("gaff", name) THEN "gaff" ELSE "NotImplementedError"

MultiTypingBranch(name) ==
    IF Contains("smirnoff", name) THEN "smirnoff" ELSE "NotImplementedError"

Typing ==
    /\ obj = "ready"
    /\ Call("typing", TypingBranch(forcefield), FALSE, TRUE, TypeGaffKeys)
    /\ UNCHANGED <<forcefield, obj, prepLog, FF, tables>>
    /\ UNCHANGED <<prepVars, gaffVars, smirVars, enVars>>

\* __call__ forwards to typing
CallTyping ==
    /\ obj = "ready"
    /\ Call("__call__", TypingBranch(forcefield), FALSE, TRUE, TypeGaffKeys)
    /\ UNCHANGED <<forcefield, obj, prepLog, FF, tables>>
    /\ UNCHANGED <<prepVars, gaffVars, smirVars, enVars>>

MultiTyping ==
    /\ obj = "ready"
    /\ Call("multi_typing", MultiTypingBranch(forcefield), TRUE, FALSE,
            MultiTypingKeys)
    /\ UNCHANGED <<forcefield, obj, prepLog, FF, tables>>
    /\ UNCHANGED <<prepVars, gaffVars, smirVars, enVars>>

InitDispatch == IdleDisp /\ IdlePrep /\ IdleGaff /\ IdleSmir /\ IdleEn

NextDispatch ==
    \/ \E name \in Names : Construct(name)
    \/ Parametrize
    \/ Typing
    \/ CallTyping
    \/ MultiTyping

SpecDispatch == InitDispatch /\ [][NextDispatch]_vars

(***************************************************************************)
(* Claims about construction and dispatch, checked under SpecDispatch.     *)
(***************************************************************************)
AnyFamily(name) ==
    Contains("gaff", name) \/ Contains("smirnoff", name) \/ Contains("openff", name)

\* the family of a routine: the smirnoff and openff routines are one family
Family(routine) == IF routine \in {"smirnoff", "openff"} THEN "smirnoff" ELSE routine

AllFiveKinds == BondKeys \cup AngleKeys \cup ProperKeys \cup ImproperKeys \cup VdwKeys

\* C1 (as stated): after parametrize(g) returns, under either scheme, g
\* carries reference parameters for bonds, angles, proper torsions, improper
\* torsions and van der Waals terms.
C1_AllFiveKindsEitherScheme ==
    (lastCall.op = "parametrize" /\ lastCall.outcome = "returned")
        => AllFiveKinds \subseteq gdata

\* C1 (amended): after parametrize(g) returns, under the SMIRNOFF/OpenFF
\* scheme g carries the reference parameters of all five kinds; under the
\* GAFF scheme it carries those of bonds, angles and proper torsions, and the
\* call has added no n4_improper and no n1 reference parameter.
C1_KindsPerScheme ==
    (lastCall.op = "parametrize" /\ lastCall.outcome = "returned")
        => /\ lastCall.routine = "smirnoff" => AllFiveKinds \subseteq gdata
           /\ lastCall.routine = "gaff" =>
                /\ (BondKeys \cup AngleKeys \cup ProperKeys) \subseteq gdata
                /\ (gdata \ lastCall.before) \cap (ImproperKeys \cup VdwKeys) = {}

C1_Witness ==
    /\ lastCall.op = "parametrize" /\ lastCall.outcome = "returned"
    /\ lastCall.routine = "gaff"
    /\ ProperKeys \subseteq gdata
    /\ ImproperKeys \cap gdata = {}

\* C7: the constructor selects a preparation routine iff the name contains
\* gaff, smirnoff or openff; exactly one routine runs, chosen with precedence
\* gaff, smirnoff, openff; otherwise NotImplementedError is raised and no
\* usable object is produced.
C7_ConstructorSelection ==
    obj # "none" =>
        /\ (obj = "ready") <=> AnyFamily(forcefield)
        /\ obj = "ready" =>
             /\ Len(prepLog) = 1
             /\ Contains("gaff", forcefield) => prepLog[1] = "gaff"
             /\ (~Contains("gaff", forcefield) /\ Contains("smirnoff", forcefield))
                    => prepLog[1] = "smirnoff"
             /\ (~Contains("gaff", forcefield) /\ ~Contains("smirnoff", forcefield))
                    => prepLog[1] = "openff"
        /\ obj = "failed" =>
             /\ prepLog = <<>>
             /\ lastCall.op = "__init__"
             /\ lastCall.outcome = "NotImplementedError"
             /\ FF = "unset" /\ ~tables

C7_Witness ==
    /\ obj = "ready"
    /\ Contains("gaff", forcefield) /\ Contains("smirnoff", forcefield)
    /\ prepLog = <<"gaff">>

\* C8: typing and __call__ perform GAFF atom typing exactly when the name
\* contains gaff and otherwise raise NotImplementedError; multi_typing
\* performs SMIRNOFF typing exactly when the name contains smirnoff and
\* otherwise raises NotImplementedError; a raise leaves the graph unchanged.
C8_TypingAvailability ==
    /\ lastCall.op \in {"typing", "__call__"} =>
         IF Contains("gaff", forcefield)
         THEN lastCall.outcome = "returned" /\ TypeGaffKeys \subseteq gdata
         ELSE lastCall.outcome = "NotImplementedError"
    /\ lastCall.op = "multi_typing" =>
         IF Contains("smirnoff", forcefield)
         THEN lastCall.outcome = "returned" /\ MultiTypingKeys \subseteq gdata
         ELSE lastCall.outcome = "NotImplementedError"
    /\ lastCall.outcome = "NotImplementedError" => gdata = lastCall.before

\* C10: for every name the constructor accepts, parametrize dispatches to the
\* routine of the family the constructor prepared, so the state that routine
\* needs (self.FF for the SMIRNOFF/OpenFF routine) has been set.
C10_DispatchConsistency ==
    (obj = "ready" /\ lastCall.op = "parametrize") =>
        /\ Family(lastCall.routine) = Family(prepLog[1])
        /\ lastCall.routine = "smirnoff" => FF # "unset"
        /\ lastCall.outcome = "returned"

(***************************************************************************)
(* _prepare_gaff: the atom-type translation tables, and _type_gaff.        *)
(***************************************************************************)
\* REDUNDANT_TYPES, in the order of its keys
RedundantKeys == <<"cd", "cf", "cq", "pd", "pf", "nd">>

REDUNDANT_TYPES ==
    [t \in {"cd", "cf", "cq", "pd", "pf", "nd"} |->
        CASE t = "cd" -> "cc" [] t = "cf" -> "ce" [] t = "cq" -> "cp"
          [] t = "pd" -> "pc" [] t = "pf" -> "pe" [] t = "nd" -> "nc"]

MaxRotation == 3
MaxAtoms == 2

\* the Atom entries of the force-field file's nonbonded section: the twelve
\* types REDUNDANT_TYPES names and some others, each once, in some order
CoreTypes ==
    <<"cc", "cd", "ce", "cf", "cp", "cq", "nc", "nd", "pc", "pd", "pe", "pf">>

Rotate(seq, r) ==
    [i \in 1..Len(seq) |-> seq[((i - 1 + r) % Len(seq)) + 1]]

XmlFiles ==
    {Rotate(front \o CoreTypes \o back, r) :
        front \in {<<>>, <<"c3">>}, back \in {<<>>, <<"hc">>, <<"hc", "ca">>},
        r \in 0..MaxRotation}

Range(f) == {f[x] : x \in DOMAIN f}

\* list.remove(x): drops the first occurrence of x
FirstIndex(seq, x) == CHOOSE i \in 1..Len(seq) :
    seq[i] = x /\ \A j \in 1..(i - 1) : seq[j] # x

RemoveNothing(seq, x) == seq

ListRemove(seq, x) ==
    LET i == FirstIndex(seq, x) IN
    [j \in 1..(Len(seq) - 1) |-> IF j < i THEN seq[j] ELSE seq[j + 1]]

\* dict(zip(keys, range(len(keys)))): a later duplicate key wins
ZipStrIdx(keys) ==
    [t \in Range(keys) |->
        (CHOOSE i \in 1..Len(keys) :
            keys[i] = t /\ \A j \in (i + 1)..Len(keys) : keys[j] # t) - 1]

\* dict(zip(range(len(keys)), keys))
ZipIdxStr(keys) == [i \in 0..(Len(keys) - 1) |-> keys[i + 1]]

\* d[key] = value
DictSet(d, key, value) == (key :> value) @@ d

\* the file is parsed: atom_types is the list of its Atom types
ParseXml ==
    /\ ppc = "parse"
    /\ atom_types' = xml_types
    /\ ppc' = "remove"
    /\ pstep' = 1
    /\ UNCHANGED <<xml_types, str_2_idx, idx_2_str, legacy_typing>>
    /\ UNCHANGED <<dispVars, gaffVars, smirVars, enVars>>

\* [atom_types.remove(bad_type) for bad_type in REDUNDANT_TYPES.keys()]
RemoveRedundant ==
    /\ ppc = "remove"
    /\ LET bad == RedundantKeys[pstep] IN
       IF bad \in Range(atom_types)
       THEN /\ atom_types' = ListRemove(atom_types, bad)
            /\ IF pstep = Len(RedundantKeys)
               THEN ppc' = "compose" /\ pstep' = 0
               ELSE ppc' = ppc /\ pstep' = pstep + 1
       ELSE /\ ppc' = "ValueError"
            /\ UNCHANGED <<atom_types, pstep>>
    /\ UNCHANGED <<xml_types, str_2_idx, idx_2_str, legacy_typing>>
    /\ UNCHANGED <<dispVars, gaffVars, smirVars, enVars>>

\* compose the translation dictionaries
Compose ==
    /\ ppc = "compose"
    /\ str_2_idx' = ZipStrIdx(atom_types)
    /\ idx_2_str' = ZipIdxStr(atom_types)
    /\ ppc' = "map"
    /\ pstep' = 1
    /\ UNCHANGED <<xml_types, atom_types, legacy_typing>>
    /\ UNCHANGED <<dispVars, gaffVars, smirVars, enVars>>

\* str_2_idx[bad_type] = str_2_idx[good_type], for each redundant type
MapRedundant ==
    /\ ppc = "map"
    /\ LET bad == RedundantKeys[pstep]
           good == REDUNDANT_TYPES[bad] IN
       IF good \in DOMAIN str_2_idx
       THEN /\ str_2_idx' = DictSet(str_2_idx, bad, str_2_idx[good])
            /\ IF pstep = Len(RedundantKeys)
               THEN ppc' = "done" /\ pstep' = 0
               ELSE ppc' = ppc /\ pstep' = pstep + 1
       ELSE /\ ppc' = "KeyError"
            /\ UNCHANGED <<str_2_idx, pstep>>
    /\ UNCHANGED <<xml_types, atom_types, idx_2_str, legacy_typing>>
    /\ UNCHANGED <<dispVars, gaffVars, smirVars, enVars>>

\* _type_gaff: the atoms' GAFF types (the types antechamber assigned, all of
\* them types of the file) are translated to indices
TypeGaff(gaff_types) ==
    /\ ppc = "done"
    /\ IF \A a \in 1..Len(gaff_types) : gaff_types[a] \in DOMAIN str_2_idx
       THEN /\ legacy_typing' = [a \in 1..Len(gaff_types) |-> str_2_idx[gaff_types[a]]]
            /\ ppc' = "typed"
       ELSE /\ ppc' = "KeyError"
            /\ UNCHANGED legacy_typing
    /\ UNCHANGED <<xml_types, atom_types, pstep, str_2_idx, idx_2_str>>
    /\ UNCHANGED <<dispVars, gaffVars, smirVars, enVars>>

InitPrepare ==
    /\ IdleDisp /\ IdleGaff /\ IdleSmir /\ IdleEn
    /\ xml_types \in XmlFiles
    /\ ppc = "parse" /\ atom_types = <<>> /\ pstep = 0
    /\ str_2_idx = <<>> /\ idx_2_str = <<>> /\ legacy_typing = <<>>

NextPrepare ==
    \/ ParseXml
    \/ RemoveRedundant
    \/ Compose
    \/ MapRedundant
    \/ \E n \in 1..MaxAtoms : \E ts \in [1..n -> Range(xml_types)] : TypeGaff(ts)

SpecPrepare == InitPrepare /\ [][NextPrepare]_vars

(***************************************************************************)
(* Claims about the translation tables, checked under SpecPrepare.         *)
(***************************************************************************)
Redundant == DOMAIN REDUNDANT_TYPES

\* the file's types with the redundant ones taken out, in the file's order
NonRedundant(types) == SelectSeq(types, LAMBDA t : t \notin Redundant)

\* C9: with T the file's atom types without the six redundant ones,
\* _str_2_idx restricted to T is a bijection onto 0..len(T)-1 with inverse
\* _idx_2_str; each redundant type maps to the index of its canonical type;
\* _idx_2_str[_str_2_idx[t]] is t, or REDUNDANT_TYPES[t] when t is redundant;
\* no index produced refers to a redundant type.
C9_TranslationTables ==
    ppc \in {"done", "typed"} =>
        LET T == NonRedundant(xml_types) IN
        /\ DOMAIN str_2_idx = Range(T) \cup Redundant
        /\ \A i \in 1..Len(T) : str_2_idx[T[i]] = i - 1
        /\ {str_2_idx[t] : t \in Range(T)} = 0..(Len(T) - 1)
        /\ \A t, u \in Range(T) : str_2_idx[t] = str_2_idx[u] => t = u
        /\ DOMAIN idx_2_str = 0..(Len(T) - 1)
        /\ \A i \in DOMAIN idx_2_str : str_2_idx[idx_2_str[i]] = i
        /\ \A t \in Redundant : str_2_idx[t] = str_2_idx[REDUNDANT_TYPES[t]]
        /\ \A t \in DOMAIN str_2_idx :
             idx_2_str[str_2_idx[t]] =
                IF t \in Redundant THEN REDUNDANT_TYPES[t] ELSE t
        /\ \A i \in DOMAIN idx_2_str : idx_2_str[i] \notin Redundant
        /\ \A a \in 1..Len(legacy_typing) :
             idx_2_str[legacy_typing[a]] \notin Redundant

C9_Witness ==
    /\ ppc = "typed"
    /\ \E a \in 1..Len(legacy_typing) :
         /\ a + 1 \in 1..Len(legacy_typing)
         /\ legacy_typing[a] = legacy_typing[a + 1]
         /\ legacy_typing[a] = str_2_idx["cd"]
    /\ str_2_idx["cd"] = str_2_idx["cc"]
    /\ xml_types[1] # "cc"

(***************************************************************************)
(* _parametrize_gaff.  The molecule is a chain of five atoms; the engine   *)
(* (the system SystemGenerator creates) lists each bond and each angle of  *)
(* the topology once, in either index order, and any number of periodic    *)
(* torsion terms per proper torsion, each in either index order, among     *)
(* torsions (impropers) that are no n4 node.  The graph holds every bond,  *)
(* angle and proper torsion in both index orders.                          *)
(***************************************************************************)
n_max_phases == 6

SmallTorsions == 3
MaxSkipped == 1

TopBonds    == << <<0, 1>>, <<1, 2>>, <<2, 3>>, <<3, 4>> >>
TopAngles   == << <<0, 1, 2>>, <<1, 2, 3>>, <<2, 3, 4>> >>
TopTorsions == << <<0, 1, 2, 3>>, <<1, 2, 3, 4>> >>

\* an engine torsion over atoms that are no proper torsion of the graph
ImproperTuple == <<1, 0, 2, 3>>

NumBonds    == Len(TopBonds)
NumAngles   == Len(TopAngles)
NumTorsions == Len(TopTorsions)

\* a tuple end to start
Reverse(t) == [i \in 1..Len(t) |-> t[Len(t) + 1 - i]]

\* the two layouts of a node type's idxs: every tuple and then every
\* reversed tuple, or each tuple followed by its reverse
Blocked(top) == top \o [i \in 1..Len(top) |-> Reverse(top[i])]

Interleaved(top) ==
    [i \in 1..(2 * Len(top)) |->
        IF i % 2 = 1 THEN top[(i + 1) \div 2] ELSE Reverse(top[i \div 2])]

\* the key of the second write: (idx1, idx0), (idx2, idx1, idx0),
\* (idx3, idx2, idx1, idx0)
SameKey(t) == t

ReversedKey(t) == [i \in 1..Len(t) |-> t[Len(t) + 1 - i]]

Graphs ==
    { [n2 |-> Blocked(TopBonds), n3 |-> Blocked(TopAngles),
       n4 |-> Blocked(TopTorsions)],
      [n2 |-> Interleaved(TopBonds), n3 |-> Interleaved(TopAngles),
       n4 |-> Interleaved(TopTorsions)] }

\* {tuple(idxs): position for position, idxs in enumerate(...)}
Lookup(idxs) == ZipStrIdx(idxs)

bond_lookup    == Lookup(g_idxs.n2)
angle_lookup   == Lookup(g_idxs.n3)
torsion_lookup == Lookup(g_idxs.n4)

number_of_nodes(ntype) == Len(g_idxs[ntype])

\* torch.zeros(n, 1), torch.zeros(n, m); positions and columns count from 0
Zeros1(n) == [p \in 0..(n - 1) |-> 0]

Zeros(n, m) == [p \in 0..(n - 1) |-> [c \in 0..(m - 1) |-> 0]]

\* force.getBondParameters(idx), force.getAngleParameters(idx)
EngineBond(idx) ==
    LET t == IF idx \in bondFlip THEN Reverse(TopBonds[idx]) ELSE TopBonds[idx]
    IN  [idxs |-> t, eq |-> 10 + idx, k |-> 100 + idx]

EngineAngle(idx) ==
    LET t == IF idx \in angleFlip THEN Reverse(TopAngles[idx]) ELSE TopAngles[idx]
    IN  [idxs |-> t, eq |-> 20 + idx, k |-> 200 + idx]

\* periodic torsion terms: force constants are even, 0 among them
TermA == [periodicity |-> 1, phase |-> 0, k |-> 2]
TermB == [periodicity |-> 2, phase |-> 1, k |-> 4]
TermZ == [periodicity |-> 3, phase |-> 1, k |-> 0]

\* the inputs: a graph layout, the engine's index orders, and the torsion
\* terms; the orders vary where few torsion terms are reported
Scenarios ==
    { [graph |-> g, bondFlip |-> bf, angleFlip |-> af, maxTorsions |-> 1,
       engineTerms |-> {TermA, TermZ}] :
         g \in Graphs, bf \in SUBSET (1..NumBonds), af \in SUBSET (1..NumAngles) }
    \cup
    { [graph |-> g, bondFlip |-> {}, angleFlip |-> {1},
       maxTorsions |-> SmallTorsions, engineTerms |-> {TermA, TermB, TermZ}] :
         g \in Graphs }
    \cup
    { [graph |-> g, bondFlip |-> {}, angleFlip |-> {},
       maxTorsions |-> n_max_phases + 1, engineTerms |-> {TermA, TermZ}] :
         g \in {[n2 |-> Blocked(TopBonds), n3 |-> Blocked(TopAngles),
                 n4 |-> Blocked(TopTorsions)]} }

\* 0.5 * k
Half(k) == k \div 2

Min(S) == CHOOSE x \in S : \A y \in S : x <= y

\* the columns of a row the loop over sub_idx takes for free
FreeSlots(position) ==
    {c \in 0..(n_max_phases - 1) : torsion_ks[position][c] = 0}

\* tensor[position, sub_idx] = value
SetCell(tensor, position, sub_idx, value) ==
    [tensor EXCEPT ![position][sub_idx] = value]

\* position = torsion_lookup[(idx3, idx2, idx1, idx0)] and the write of the
\* same column of that row
MirrorWriteSamePosition(tensor, idxs, sub_idx, value) ==
    SetCell(tensor, torsion_lookup[idxs], sub_idx, value)

MirrorWrite(tensor, idxs, sub_idx, value) ==
    SetCell(tensor, torsion_lookup[ReversedKey(idxs)], sub_idx, value)

\* what apply_nodes(..., ntype="n4") stores
TorsionData(ks, periodicities, phases) ==
    [k_ref |-> ks, periodicity_ref |-> periodicities, phases_ref |-> phases]

\* the HarmonicBondForce branch up to its loop
BondForce ==
    /\ gpc = "bond_force"
    /\ IF NumBonds * 2 = number_of_nodes("n2")
       THEN /\ n2_eq_ref' = Zeros1(NumBonds * 2)
            /\ n2_k_ref' = Zeros1(NumBonds * 2)
            /\ gpc' = "bond_loop"
       ELSE /\ gpc' = "AssertionError"
            /\ UNCHANGED <<n2_eq_ref, n2_k_ref>>
    /\ gidx' = 1
    /\ UNCHANGED <<g_idxs, bondFlip, angleFlip, maxTorsions, engineTerms,
                   n3_eq_ref, n3_k_ref, torsion_ks, torsion_phases,
                   torsion_periodicities, n4_data, reported, orientSeen, skipped>>
    /\ UNCHANGED <<dispVars, prepVars, smirVars, enVars>>

\* one pass of the loop over the engine's bonds
BondEntry ==
    /\ gpc = "bond_loop"
    /\ gidx <= NumBonds
    /\ LET e == EngineBond(gidx)
           fwd == e.idxs
           rev == ReversedKey(e.idxs) IN
       IF fwd \in DOMAIN bond_lookup /\ rev \in DOMAIN bond_lookup
       THEN /\ n2_eq_ref' = [n2_eq_ref EXCEPT ![bond_lookup[fwd]] = e.eq,
                                              ![bond_lookup[rev]] = e.eq]
            /\ n2_k_ref' = [n2_k_ref EXCEPT ![bond_lookup[fwd]] = e.k,
                                            ![bond_lookup[rev]] = e.k]
            /\ gidx' = gidx + 1
            /\ gpc' = gpc
       ELSE /\ gpc' = "KeyError"
            /\ UNCHANGED <<n2_eq_ref, n2_k_ref, gidx>>
    /\ UNCHANGED <<g_idxs, bondFlip, angleFlip, maxTorsions, engineTerms,
                   n3_eq_ref, n3_k_ref, torsion_ks, torsion_phases,
                   torsion_periodicities, n4_data, reported, orientSeen, skipped>>
    /\ UNCHANGED <<dispVars, prepVars, smirVars, enVars>>

\* the end of a pass of the loop over forces: apply_nodes on n4
ForceEnd(from, to) ==
    /\ gpc = from
    /\ n4_data' = TorsionData(torsion_ks, torsion_periodicities, torsion_phases)
    /\ gpc' = to
    /\ gidx' = 1
    /\ UNCHANGED <<g_idxs, bondFlip, angleFlip, maxTorsions, engineTerms,
                   n2_eq_ref, n2_k_ref, n3_eq_ref, n3_k_ref, torsion_ks,
                   torsion_phases, torsion_periodicities, reported, orientSeen,
                   skipped>>
    /\ UNCHANGED <<dispVars, prepVars, smirVars, enVars>>

BondForceEnd == gidx = NumBonds + 1 /\ ForceEnd("bond_loop", "angle_force")

\* the HarmonicAngleForce branch up to its loop
AngleForce ==
    /\ gpc = "angle_force"
    /\ IF NumAngles * 2 = number_of_nodes("n3")
       THEN /\ n3_eq_ref' = Zeros1(NumAngles * 2)
            /\ n3_k_ref' = Zeros1(NumAngles * 2)
            /\ gpc' = "angle_loop"
       ELSE /\ gpc' = "AssertionError"
            /\ UNCHANGED <<n3_eq_ref, n3_k_ref>>
    /\ gidx' = 1
    /\ UNCHANGED <<g_idxs, bondFlip, angleFlip, maxTorsions, engineTerms,
                   n2_eq_ref, n2_k_ref, torsion_ks, torsion_phases,
                   torsion_periodicities, n4_data, reported, orientSeen, skipped>>
    /\ UNCHANGED <<dispVars, prepVars, smirVars, enVars>>

\* one pass of the loop over the engine's angles
AngleEntry ==
    /\ gpc = "angle_loop"
    /\ gidx <= NumAngles
    /\ LET e == EngineAngle(gidx)
           fwd == e.idxs
           rev == ReversedKey(e.idxs) IN
       IF fwd \in DOMAIN angle_lookup /\ rev \in DOMAIN angle_lookup
       THEN /\ n3_eq_ref' = [n3_eq_ref EXCEPT ![angle_lookup[fwd]] = e.eq,
                                              ![angle_lookup[rev]] = e.eq]
            /\ n3_k_ref' = [n3_k_ref EXCEPT ![angle_lookup[fwd]] = e.k,
                                            ![angle_lookup[rev]] = e.k]
            /\ gidx' = gidx + 1
            /\ gpc' = gpc
       ELSE /\ gpc' = "KeyError"
            /\ UNCHANGED <<n3_eq_ref, n3_k_ref, gidx>>
    /\ UNCHANGED <<g_idxs, bondFlip, angleFlip, maxTorsions, engineTerms,
                   n2_eq_ref, n2_k_ref, torsion_ks, torsion_phases,
                   torsion_periodicities, n4_data, reported, orientSeen, skipped>>
    /\ UNCHANGED <<dispVars, prepVars, smirVars, enVars>>

AngleForceEnd == gidx = NumAngles + 1 /\ ForceEnd("angle_loop", "torsion_loop")

ProperReported == reported[1] \o reported[2]

\* one pass of the loop over the engine's torsions: the engine reports
\* `term` for the index tuple `idxs`
TorsionPass(idxs, term) ==
    IF idxs \notin DOMAIN torsion_lookup
    THEN UNCHANGED <<torsion_ks, torsion_phases, torsion_periodicities, gpc>>
    ELSE LET position == torsion_lookup[idxs]
             free == FreeSlots(position) IN
         IF free = {}
         THEN UNCHANGED <<torsion_ks, torsion_phases, torsion_periodicities, gpc>>
         ELSE LET sub_idx == Min(free)
                  ks1 == SetCell(torsion_ks, position, sub_idx, Half(term.k))
                  ph1 == SetCell(torsion_phases, position, sub_idx, term.phase)
                  pe1 == SetCell(torsion_periodicities, position, sub_idx,
                                 term.periodicity)
                  rev == ReversedKey(idxs) IN
              IF rev \notin DOMAIN torsion_lookup
              THEN /\ torsion_ks' = ks1
                   /\ torsion_phases' = ph1
                   /\ torsion_periodicities' = pe1
                   /\ gpc' = "KeyError"
              ELSE /\ torsion_ks' = MirrorWrite(ks1, idxs, sub_idx, Half(term.k))
                   /\ torsion_phases' = MirrorWrite(ph1, idxs, sub_idx, term.phase)
                   /\ torsion_periodicities' =
                        MirrorWrite(pe1, idxs, sub_idx, term.periodicity)
                   /\ gpc' = gpc

\* the engine's next entry is a term of proper torsion p, in either order
TorsionEntry(p, order, term) ==
    /\ gpc = "torsion_loop"
    /\ Len(ProperReported) < maxTorsions
    /\ TorsionPass(IF order = "rev" THEN Reverse(TopTorsions[p])
                   ELSE TopTorsions[p], term)
    /\ reported' = [reported EXCEPT ![p] = Append(@, term)]
    /\ orientSeen' = [orientSeen EXCEPT ![p] = @ \cup {order}]
    /\ gidx' = gidx + 1
    /\ UNCHANGED <<g_idxs, bondFlip, angleFlip, maxTorsions, engineTerms,
                   n2_eq_ref, n2_k_ref, n3_eq_ref, n3_k_ref, n4_data, skipped>>
    /\ UNCHANGED <<dispVars, prepVars, smirVars, enVars>>

\* the engine's next entry is a torsion that is no n4 node
ImproperEntry(term) ==
    /\ gpc = "torsion_loop"
    /\ skipped < MaxSkipped
    /\ TorsionPass(ImproperTuple, term)
    /\ skipped' = skipped + 1
    /\ gidx' = gidx + 1
    /\ UNCHANGED <<g_idxs, bondFlip, angleFlip, maxTorsions, engineTerms,
                   n2_eq_ref, n2_k_ref, n3_eq_ref, n3_k_ref, n4_data, reported,
                   orientSeen>>
    /\ UNCHANGED <<dispVars, prepVars, smirVars, enVars>>

\* the engine's torsions are exhausted
TorsionForceEnd == ForceEnd("torsion_loop", "other_force")

\* the forces no branch matches (the nonbonded force, the motion remover)
OtherForceEnd == ForceEnd("other_force", "done")

InitGaff ==
    /\ IdleDisp /\ IdlePrep /\ IdleSmir /\ IdleEn
    /\ \E sc \in Scenarios :
        /\ g_idxs = sc.graph
        /\ bondFlip = sc.bondFlip
        /\ angleFlip = sc.angleFlip
        /\ maxTorsions = sc.maxTorsions
        /\ engineTerms = sc.engineTerms
    /\ gpc = "bond_force" /\ gidx = 1
    /\ n2_eq_ref = <<>> /\ n2_k_ref = <<>> /\ n3_eq_ref = <<>> /\ n3_k_ref = <<>>
    /\ torsion_ks = Zeros(number_of_nodes("n4"), n_max_phases)
    /\ torsion_phases = Zeros(number_of_nodes("n4"), n_max_phases)
    /\ torsion_periodicities = Zeros(number_of_nodes("n4"), n_max_phases)
    /\ n4_data = <<>>
    /\ reported = [p \in 1..NumTorsions |-> <<>>]
    /\ orientSeen = [p \in 1..NumTorsions |-> {}]
    /\ skipped = 0

NextGaff ==
    \/ BondForce
    \/ BondEntry
    \/ BondForceEnd
    \/ AngleForce
    \/ AngleEntry
    \/ AngleForceEnd
    \/ \E p \in 1..NumTorsions, order \in {"fwd", "rev"}, term \in engineTerms :
          TorsionEntry(p, order, term)
    \/ \E term \in engineTerms : ImproperEntry(term)
    \/ TorsionForceEnd
    \/ OtherForceEnd

SpecGaff == InitGaff /\ [][NextGaff]_vars

(***************************************************************************)
(* Claims about _parametrize_gaff, checked under SpecGaff.                 *)
(***************************************************************************)
\* the rows of a tensor at positions p and q, for every pair of n4 nodes
\* whose idxs are each other's reverse, are the same
SymmetricRows(tensor) ==
    \A p, q \in DOMAIN tensor :
        g_idxs.n4[q + 1] = Reverse(g_idxs.n4[p + 1]) => tensor[p] = tensor[q]

\* C2: after _parametrize_gaff returns, for every bond (i, j, eq, k) of the
\* engine the n2 rows of (i, j) and (j, i) both hold eq and k, and for every
\* angle (i, j, l, eq, k) the n3 rows of (i, j, l) and (l, j, i) both hold
\* eq and k.
C2_BondAngleBothOrders ==
    gpc = "done" =>
        /\ \A idx \in 1..NumBonds :
             LET e == EngineBond(idx)
                 i == e.idxs[1]
                 j == e.idxs[2] IN
             /\ n2_eq_ref[bond_lookup[<<i, j>>]] = e.eq
             /\ n2_k_ref[bond_lookup[<<i, j>>]] = e.k
             /\ n2_eq_ref[bond_lookup[<<j, i>>]] = e.eq
             /\ n2_k_ref[bond_lookup[<<j, i>>]] = e.k
        /\ \A idx \in 1..NumAngles :
             LET e == EngineAngle(idx)
                 i == e.idxs[1]
                 j == e.idxs[2]
                 l == e.idxs[3] IN
             /\ n3_eq_ref[angle_lookup[<<i, j, l>>]] = e.eq
             /\ n3_k_ref[angle_lookup[<<i, j, l>>]] = e.k
             /\ n3_eq_ref[angle_lookup[<<l, j, i>>]] = e.eq
             /\ n3_k_ref[angle_lookup[<<l, j, i>>]] = e.k

C2_Witness ==
    /\ gpc = "done"
    /\ bondFlip = {2, 3}
    /\ angleFlip = {1}
    /\ g_idxs.n2[2] = <<1, 0>>
    /\ n2_eq_ref[bond_lookup[<<2, 1>>]] = 12
    /\ n3_k_ref[angle_lookup[<<0, 1, 2>>]] = 201

\* the row the claim expects for the terms reported for a torsion: term c
\* in column c - 1, zero from column n on
ExpectedRow(terms, field) ==
    [c \in 0..(n_max_phases - 1) |->
        IF c < Len(terms)
        THEN (IF field = "k" THEN terms[c + 1].k \div 2
              ELSE IF field = "phase" THEN terms[c + 1].phase
              ELSE terms[c + 1].periodicity)
        ELSE 0]

\* C3: for every proper torsion of the n4 lookup table for which the engine
\* reports n <= 6 terms (any order of entries, any force constants, zero
\* included), after _parametrize_gaff returns its n4 row holds the n terms
\* in columns 0..n-1 in the order reported (k_ref = 0.5 * k, phases_ref =
\* phase, periodicity_ref = periodicity) and zeros in columns n..5.
C3_GaffPadding ==
    gpc = "done" =>
        \A p \in 1..NumTorsions :
            Len(reported[p]) <= n_max_phases =>
                LET row == torsion_lookup[TopTorsions[p]] IN
                /\ n4_data.k_ref[row] = ExpectedRow(reported[p], "k")
                /\ n4_data.phases_ref[row] = ExpectedRow(reported[p], "phase")
                /\ n4_data.periodicity_ref[row] =
                        ExpectedRow(reported[p], "periodicity")

\* C5: at every point of the torsion loop and after _parametrize_gaff
\* returns, for every pair of n4 nodes with idxs (a, b, c, d) and
\* (d, c, b, a) the two rows of k_ref, of phases_ref and of periodicity_ref
\* are identical, whichever order the engine used for each term and however
\* many terms it reported.
C5_TorsionRowsSymmetric ==
    gpc \in {"torsion_loop", "other_force", "done"} =>
        /\ SymmetricRows(torsion_ks)
        /\ SymmetricRows(torsion_phases)
        /\ SymmetricRows(torsion_periodicities)
        /\ SymmetricRows(n4_data.k_ref)
        /\ SymmetricRows(n4_data.phases_ref)
        /\ SymmetricRows(n4_data.periodicity_ref)

C5_Witness ==
    /\ gpc = "done"
    /\ orientSeen[1] = {"fwd", "rev"}
    /\ Len(reported[1]) > n_max_phases
    /\ \A c \in 0..(n_max_phases - 1) :
         n4_data.k_ref[torsion_lookup[<<3, 2, 1, 0>>]][c] # 0

(***************************************************************************)
(* _parametrize_smirnoff.  forces = self.FF.label_molecules(...)[0] gives, *)
(* per term kind, the parameter of each index tuple it matches.  A torsion *)
(* parameter of n Fourier terms holds the lists periodicity, k and phase   *)
(* and exposes their elements as attributes k<s>, phase<s>,                *)
(* periodicity<s>; the toolkit counts s from 1 and reads element s - 1 of  *)
(* the list, which by Python's indexing makes k0 the last element          *)
(* ("wrap"); a parameter type that rejects index 0 exposes k1..kn only     *)
(* ("strict").                                                             *)
(***************************************************************************)
SmirnoffIdxs ==
    [n1 |-> << <<0>>, <<1>>, <<2>>, <<3>>, <<4>> >>,
     n2 |-> Blocked(TopBonds),
     n3 |-> Blocked(TopAngles),
     n4 |-> << <<0, 1, 2, 3>>, <<3, 2, 1, 0>> >>,
     n4_improper |-> << <<1, 0, 2, 3>>, <<1, 2, 3, 0>>, <<1, 3, 0, 2>> >>]

\* a torsion parameter of n Fourier terms
TorsionParameter(n) ==
    [periodicity |-> [i \in 1..n |-> i],
     k           |-> [i \in 1..n |-> 2 * i + 1],
     phase       |-> [i \in 1..n |-> i % 2]]

\* the labels of the nodes of a type: per position, the number of terms of
\* the matching parameter, 0 when the idxs tuple is in no label
LabelChoices ==
    { [n4 |-> pr, n4_improper |-> im] :
        pr \in [0..1 -> 0..(n_max_phases + 1)], im \in [0..2 -> 0..2] }

\* hasattr(_force, "k%s" % sub_idx)
HasAttr(param, sub_idx) ==
    IF exposure = "wrap"
    THEN sub_idx <= Len(param.periodicity)
    ELSE sub_idx \in 1..Len(param.periodicity)

\* getattr(_force, "<name>%s" % sub_idx): element sub_idx - 1 of the list,
\* element -1 being the last
GetAttr(param, name, sub_idx) ==
    IF sub_idx = 0 THEN param[name][Len(param[name])] ELSE param[name][sub_idx]

\* the columns the loop over sub_idx writes for a parameter
WrittenSkipFirst(param) ==
    {c \in 1..(Len(param.periodicity) - 1) : HasAttr(param, c)}

Written(param) ==
    {c \in 0..(Len(param.periodicity) - 1) : HasAttr(param, c)}

\* the row of a node after the loop over sub_idx
FillRow(row, param, name) ==
    [c \in DOMAIN row |->
        IF c \in Written(param) THEN GetAttr(param, name, c) ELSE row[c]]

\* the bonded and nonbonded reference data: k_ref is twice the labelled k,
\* sigma_ref is the labelled rmin_half
BondLabel(t)  == [k |-> 50 + t[1] + t[2], length |-> 10 + t[1] + t[2]]
AngleLabel(t) == [k |-> 60 + t[1] + t[3], angle |-> 20 + t[2]]
VdwLabel(t)   == [epsilon |-> 1 + t[1], rmin_half |-> 30 + t[1]]

\* torch.Tensor([... for idx in range(n)])[:, None]: one value per node
Positions(idxs) == 0..(Len(idxs) - 1)

ApplyBonded ==
    /\ spc = "bonded"
    /\ s_data' =
         [s_data EXCEPT
            !.n2 = [k_ref  |-> [p \in Positions(SmirnoffIdxs.n2) |->
                                  2 * BondLabel(SmirnoffIdxs.n2[p + 1]).k],
                    eq_ref |-> [p \in Positions(SmirnoffIdxs.n2) |->
                                  BondLabel(SmirnoffIdxs.n2[p + 1]).length]],
            !.n3 = [k_ref  |-> [p \in Positions(SmirnoffIdxs.n3) |->
                                  2 * AngleLabel(SmirnoffIdxs.n3[p + 1]).k],
                    eq_ref |-> [p \in Positions(SmirnoffIdxs.n3) |->
                                  AngleLabel(SmirnoffIdxs.n3[p + 1]).angle]],
            !.n1 = [epsilon_ref |-> [p \in Positions(SmirnoffIdxs.n1) |->
                                  VdwLabel(<<p>>).epsilon],
                    sigma_ref   |-> [p \in Positions(SmirnoffIdxs.n1) |->
                                  VdwLabel(<<p>>).rmin_half]]]
    /\ s_work' = TorsionData(Zeros(Len(SmirnoffIdxs.n4), n_max_phases),
                             Zeros(Len(SmirnoffIdxs.n4), n_max_phases),
                             Zeros(Len(SmirnoffIdxs.n4), n_max_phases))
    /\ spc' = "n4"
    /\ sidx' = 0
    /\ UNCHANGED <<exposure, labels>>
    /\ UNCHANGED <<dispVars, prepVars, gaffVars, enVars>>

\* one pass of the loop over the nodes of ntype in apply_torsion /
\* apply_improper_torsion
TorsionNode(ntype) ==
    /\ spc = ntype
    /\ sidx < Len(SmirnoffIdxs[ntype])
    /\ LET n == labels[ntype][sidx] IN
       IF n = 0
       THEN /\ UNCHANGED s_work
            /\ sidx' = sidx + 1
            /\ spc' = spc
       ELSE LET param == TorsionParameter(n) IN
            IF \E c \in Written(param) : c >= n_max_phases
            THEN /\ spc' = "IndexError"
                 /\ UNCHANGED <<s_work, sidx>>
            ELSE /\ s_work' =
                      [k_ref |-> [s_work.k_ref EXCEPT
                                    ![sidx] = FillRow(@, param, "k")],
                       phases_ref |-> [s_work.phases_ref EXCEPT
                                    ![sidx] = FillRow(@, param, "phase")],
                       periodicity_ref |-> [s_work.periodicity_ref EXCEPT
                                    ![sidx] = FillRow(@, param, "periodicity")]]
                 /\ sidx' = sidx + 1
                 /\ spc' = spc
    /\ UNCHANGED <<exposure, labels, s_data>>
    /\ UNCHANGED <<dispVars, prepVars, gaffVars, enVars>>

ProperNode == TorsionNode("n4")

ImproperNode == TorsionNode("n4_improper")

\* apply_torsion returns and apply_nodes stores its tensors on n4
ProperReturn ==
    /\ spc = "n4"
    /\ sidx = Len(SmirnoffIdxs.n4)
    /\ s_data' = [s_data EXCEPT !.n4 = s_work]
    /\ s_work' = TorsionData(Zeros(Len(SmirnoffIdxs.n4_improper), n_max_phases),
                             Zeros(Len(SmirnoffIdxs.n4_improper), n_max_phases),
                             Zeros(Len(SmirnoffIdxs.n4_improper), n_max_phases))
    /\ spc' = "n4_improper"
    /\ sidx' = 0
    /\ UNCHANGED <<exposure, labels>>
    /\ UNCHANGED <<dispVars, prepVars, gaffVars, enVars>>

\* apply_improper_torsion returns and apply_nodes stores its tensors
ImproperReturn ==
    /\ spc = "n4_improper"
    /\ sidx = Len(SmirnoffIdxs.n4_improper)
    /\ s_data' = [s_data EXCEPT !.n4_improper = s_work]
    /\ spc' = "done"
    /\ UNCHANGED <<sidx, s_work, exposure, labels>>
    /\ UNCHANGED <<dispVars, prepVars, gaffVars, enVars>>

InitSmirnoff ==
    /\ IdleDisp /\ IdlePrep /\ IdleGaff /\ IdleEn
    /\ spc = "bonded" /\ sidx = 0
    /\ exposure \in {"wrap", "strict"}
    /\ labels \in LabelChoices
    /\ s_work = <<>>
    /\ s_data = [n1 |-> <<>>, n2 |-> <<>>, n3 |-> <<>>, n4 |-> <<>>,
                 n4_improper |-> <<>>]

NextSmirnoff ==
    \/ ApplyBonded
    \/ ProperNode
    \/ ProperReturn
    \/ ImproperNode
    \/ ImproperReturn

SpecSmirnoff == InitSmirnoff /\ [][NextSmirnoff]_vars

(***************************************************************************)
(* Claims about _parametrize_smirnoff, checked under SpecSmirnoff.         *)
(***************************************************************************)
\* the parameter exposes k<s>, phase<s>, periodicity<s> for every s in
\* range(len(periodicity))
ExposesAll(param) ==
    \A sub_idx \in 0..(Len(param.periodicity) - 1) : HasAttr(param, sub_idx)

\* the rows of a node hold every term of param and zeros elsewhere
HoldsEveryTerm(data, position, param) ==
    LET n == Len(param.periodicity)
        used == {c \in 0..(n_max_phases - 1) :
                    data.periodicity_ref[position][c] # 0} IN
    /\ \A i \in 1..n : \E c \in used :
          /\ data.k_ref[position][c] = param.k[i]
          /\ data.phases_ref[position][c] = param.phase[i]
          /\ data.periodicity_ref[position][c] = param.periodicity[i]
    /\ Cardinality(used) = n
    /\ \A c \in (0..(n_max_phases - 1)) \ used :
          /\ data.k_ref[position][c] = 0
          /\ data.phases_ref[position][c] = 0

\* C4: for every n4 and n4_improper node whose idxs the labels match with a
\* parameter of n <= 6 Fourier terms, exposed as k<s>, phase<s>,
\* periodicity<s> for s in range(len(periodicity)), after
\* _parametrize_smirnoff returns the node's rows of k_ref, phases_ref and
\* periodicity_ref hold every one of the n terms and zeros elsewhere.
C4_SmirnoffPadding ==
    spc = "done" =>
        \A ntype \in {"n4", "n4_improper"} :
            \A position \in 0..(Len(SmirnoffIdxs[ntype]) - 1) :
                LET n == labels[ntype][position] IN
                (n \in 1..n_max_phases /\ ExposesAll(TorsionParameter(n)))
                    => HoldsEveryTerm(s_data[ntype], position, TorsionParameter(n))

C4_Witness ==
    /\ spc = "done"
    /\ exposure = "wrap"
    /\ labels.n4[0] = n_max_phases
    /\ labels.n4[1] = 2
    /\ labels.n4_improper[2] = 2
    /\ s_data.n4.periodicity_ref[0][0] = n_max_phases
    /\ s_data.n4_improper.k_ref[2][1] = 3

(***************************************************************************)
(* baseline_energy.  A string is a sequence of tokens; the n1 "xyz" tensor *)
(* of shape (atoms, S, 3) is xyz[atom][conformation], a point.             *)
(***************************************************************************)
NumAtoms == 2
MaxConformations == 2

Points == { <<0, 0, 0>>, <<1, 0, 2>> }

XyzTensors ==
    UNION { [1..NumAtoms -> [1..S -> Points]] : S \in 1..MaxConformations }

EnergyForceFields == { <<"gaff", "1.81">>, <<"openff", "1.2.0">> }

\* Python's None, as a suffix argument
None == <<"<None>">>

Suffixes == { None, <<"_ref">>, <<>> }

\* "u%s" % suffix
EnergyKey(sfx) == <<"g", <<"u">> \o sfx>>

\* "_" + self.forcefield
DefaultSuffix(name) == <<"_">> \o name

\* .transpose((1, 0, 2)): conformation first, then atom
Transpose(xyz) ==
    [s \in 1..Len(xyz[1]) |-> [a \in 1..Len(xyz) |-> xyz[a][s]]]

\* simulation.context.getState(getEnergy=True).getPotentialEnergy() after
\* setPositions(x): the engine's energy, a function of the atoms' positions
PotentialEnergy(x) ==
    LET Weight(a) == IF a = 1 THEN 1 ELSE 5 * a
        Term[a \in 0..Len(x)] ==
            IF a = 0 THEN 0
            ELSE Term[a - 1] + Weight(a) * (x[a][1] + 2 * x[a][2] + 3 * x[a][3] + 1)
    IN  Term[Len(x)]

\* us.append(...)
PrependEnergy(list, u) == <<u>> \o list

AppendEnergy(list, u) == Append(list, u)

\* torch.tensor(us)[None, :]
Unsqueeze(list) == <<list>>

\* suffix defaults, the system and the simulation are built, xs is computed
EnergyBegin ==
    /\ epc = "begin"
    /\ suffix' = IF suffix_arg = None THEN DefaultSuffix(forcefield) ELSE suffix_arg
    /\ xs' = Transpose(edata[<<"n1", <<"xyz">>>>])
    /\ us' = <<>>
    /\ epc' = "loop"
    /\ UNCHANGED <<suffix_arg, edata, edata0>>
    /\ UNCHANGED <<dispVars, prepVars, gaffVars, smirVars>>

\* one pass of `for x in xs`
EnergyConformation ==
    /\ epc = "loop"
    /\ Len(us) < Len(xs)
    /\ us' = AppendEnergy(us, PotentialEnergy(xs[Len(us) + 1]))
    /\ UNCHANGED <<epc, suffix_arg, suffix, xs, edata, edata0>>
    /\ UNCHANGED <<dispVars, prepVars, gaffVars, smirVars>>

\* g.nodes["g"].data["u%s" % suffix] = torch.tensor(us)[None, :]
EnergyStore ==
    /\ epc = "loop"
    /\ Len(us) = Len(xs)
    /\ edata' = (EnergyKey(suffix) :> Unsqueeze(us)) @@ edata
    /\ epc' = "done"
    /\ UNCHANGED <<suffix_arg, suffix, xs, us, edata0>>
    /\ UNCHANGED <<dispVars, prepVars, gaffVars, smirVars>>

\* the node data a graph may hold when baseline_energy is called
GraphData(xyz) ==
    { (<<"n1", <<"xyz">>>> :> xyz),
      (<<"n1", <<"xyz">>>> :> xyz) @@ (<<"g", <<"u", "_ref">>>> :> << <<7>> >>),
      (<<"n1", <<"xyz">>>> :> xyz) @@ (<<"g", <<"u">>>> :> << <<7>> >>)
          @@ (<<"g", <<"u", "_", "gaff", "1.81">>>> :> << <<8>> >>) }

InitEnergy ==
    /\ IdlePrep /\ IdleGaff /\ IdleSmir
    /\ forcefield \in EnergyForceFields
    /\ obj = "ready" /\ prepLog = <<PrepareBranch(forcefield)>>
    /\ FF = (IF PrepareBranch(forcefield) = "gaff" THEN "unset"
             ELSE LoadedFF(forcefield))
    /\ tables = (PrepareBranch(forcefield) = "gaff")
    /\ gdata = {}
    /\ lastCall = [op |-> "__init__", routine |-> PrepareBranch(forcefield),
                   outcome |-> "returned", before |-> {}]
    /\ epc = "begin"
    /\ suffix_arg \in Suffixes
    /\ suffix = suffix_arg
    /\ xs = <<>> /\ us = <<>>
    /\ \E xyz \in XyzTensors : edata \in GraphData(xyz)
    /\ edata0 = edata

NextEnergy ==
    \/ EnergyBegin
    \/ EnergyConformation
    \/ EnergyStore

SpecEnergy == InitEnergy /\ [][NextEnergy]_vars

(***************************************************************************)
(* Claims about baseline_energy, checked under SpecEnergy.                 *)
(***************************************************************************)
\* C6: baseline_energy(g, suffix) stores in g.nodes['g'].data['u' + suffix]
\* (suffix defaulting to '_' + self.forcefield when None) a tensor of shape
\* (1, S), S the number of conformations; entry s is the engine's potential
\* energy at the positions of conformation s; no other node data of g is
\* created or changed.
C6_BaselineEnergy ==
    epc = "done" =>
        LET xyz == edata0[<<"n1", <<"xyz">>>>]
            S == Len(xyz[1])
            key == <<"g", <<"u">> \o (IF suffix_arg = None
                                      THEN <<"_">> \o forcefield
                                      ELSE suffix_arg)>> IN
        /\ key \in DOMAIN edata
        /\ Len(edata[key]) = 1
        /\ Len(edata[key][1]) = S
        /\ \A s \in 1..S :
             edata[key][1][s] = PotentialEnergy([a \in 1..NumAtoms |-> xyz[a][s]])
        /\ DOMAIN edata = DOMAIN edata0 \cup {key}
        /\ \A other \in DOMAIN edata0 \ {key} : edata[other] = edata0[other]

C6_Witness ==
    /\ epc = "done"
    /\ suffix_arg = None
    /\ forcefield = <<"gaff", "1.81">>
    /\ <<"g", <<"u", "_", "gaff", "1.81">>>> \in DOMAIN edata0
    /\ Len(edata[<<"g", <<"u", "_", "gaff", "1.81">>>>][1]) = 2
    /\ edata[<<"g", <<"u", "_", "gaff", "1.81">>>>][1][1]
         # edata[<<"g", <<"u", "_", "gaff", "1.81">>>>][1][2]
    /\ edata[<<"g", <<"u">>>>] = << <<7>> >>

====
